---- MODULE Spec2Model ----
(***************************************************************************)
(* A model of the CodeSync interpreter (src/services/pythonExecutor.ts)    *)
(* and of the resumption protocol its driver follows (App.tsx,             *)
(* src/unnamed/part_000).                                                  *)
(*                                                                         *)
(* Representation.                                                         *)
(*  - A JS string value is a sequence of one-character strings, so that    *)
(*    Number(text) and String(number) are computed digit by digit.         *)
(*  - A value is tagged: [t |-> "num", v |-> n] or [t |-> "str", v |-> s]. *)
(*  - An expression is the sequence of its tokens; a token is              *)
(*    [k |-> kind, x |-> payload] with kind "num" (a decimal literal),     *)
(*    "id" (a \w+ word), "str" (a quoted literal without quote characters  *)
(*    inside), "op" (one of + - * /) or "input" (a call input(prompt),     *)
(*    the prompt free of operators).  The empty sequence is the empty      *)
(*    (or all-blank) expression text.                                      *)
(*  - A source line is [indent, kind, var, expr, abs]: its leading white   *)
(*    space, the shape of its trimmed text ("blank", "comment",            *)
(*    "assign" for `var = expr`, "for" for `for var in range(expr):`,      *)
(*    "print" for `print(expr)`, "other"), and abs, a ghost field holding  *)
(*    the line's 1-based number in the outermost source.                   *)
(*  - A scope is a function from variable names to values.                 *)
(*  - An optional JS field (output, inputVariable, error, providedInput)   *)
(*    is a sequence of length 0 (absent / null) or 1.                      *)
(*  - A thrown Error is a result [ok |-> FALSE, err |-> message].          *)
(*  - A number is an integer: the expressions the model evaluates divide   *)
(*    exactly or by zero.                                                  *)
(***************************************************************************)
EXTENDS Integers, Sequences, FiniteSets, TLC

VARIABLES code, pc, args, response, executionTrace, supplied, evaluated, app,
          mem, calls

vars == <<code, pc, args, response, executionTrace, supplied, evaluated, app,
          mem, calls>>

----------------------------------------------------------------------------
(* Bounds of the model *)

MaxLines == 3

\* The largest number of operands of a generated expression
MaxOperands == 3

\* The largest number of terminal submissions between two runs
MaxSubmits == 2

\* The largest number of invocations of which the arguments and the result
\* are kept
MaxCalls == 3

\* The largest number of objects the invocations allocate
MaxObjects == 10

\* The largest number of nested invocations
MaxDepth == 2

LoopCount == 2

----------------------------------------------------------------------------
(* Values and the JS conversions Number(string), String(value) *)

Num(n) == [t |-> "num", v |-> n]

Str(s) == [t |-> "str", v |-> s]

EmptyScope == [name \in {} |-> Num(0)]

Bind(scope, name, value) ==
    [n \in (DOMAIN scope) \cup {name} |-> IF n = name THEN value ELSE scope[n]]

Digits == <<"0", "1", "2", "3", "4", "5", "6", "7", "8", "9">>

IsDigit(c) == \E d \in 1..10 : Digits[d] = c

DigitValue(c) == (CHOOSE d \in 1..10 : Digits[d] = c) - 1

RECURSIVE TrimLeft(_)
TrimLeft(s) == IF s # <<>> /\ Head(s) = " " THEN TrimLeft(Tail(s)) ELSE s

RECURSIVE TrimRight(_)
TrimRight(s) ==
    IF s # <<>> /\ s[Len(s)] = " " THEN TrimRight(SubSeq(s, 1, Len(s) - 1)) ELSE s

Trim(s) == TrimRight(TrimLeft(s))

RECURSIVE DecimalValue(_)
DecimalValue(s) ==
    IF s = <<>> THEN 0
    ELSE 10 * DecimalValue(SubSeq(s, 1, Len(s) - 1)) + DigitValue(s[Len(s)])

AllDigits(s) == s # <<>> /\ \A n \in 1..Len(s) : IsDigit(s[n])

\* Number(text): blank text is 0, a (signed) run of decimal digits is its
\* value, anything else is NaN.
NumberOf(text) ==
    LET s == Trim(text)
    IN  IF s = <<>> THEN [nan |-> FALSE, v |-> 0]
        ELSE IF AllDigits(s) THEN [nan |-> FALSE, v |-> DecimalValue(s)]
        ELSE IF s[1] \in {"-", "+"} /\ AllDigits(Tail(s))
             THEN [nan |-> FALSE,
                   v |-> IF s[1] = "-" THEN 0 - DecimalValue(Tail(s))
                         ELSE DecimalValue(Tail(s))]
        ELSE [nan |-> TRUE, v |-> 0]

RECURSIVE NatDigits(_)
NatDigits(n) ==
    IF n < 10 THEN <<Digits[n + 1]>>
    ELSE Append(NatDigits(n \div 10), Digits[(n % 10) + 1])

\* String(value)
StringOf(value) ==
    IF value.t = "str" THEN value.v
    ELSE IF value.v < 0 THEN <<"-">> \o NatDigits(0 - value.v)
    ELSE NatDigits(value.v)

\* JS truthiness of a value ('' and 0 are falsy)
Truthy(value) == IF value.t = "str" THEN value.v # <<>> ELSE value.v # 0

----------------------------------------------------------------------------
(* Tokens, results and error messages *)

NumTok(n) == [k |-> "num", x |-> n]

IdTok(name) == [k |-> "id", x |-> name]

StrTok(s) == [k |-> "str", x |-> s]

OpTok(o) == [k |-> "op", x |-> o]

InputTok(prompt) == [k |-> "input", x |-> prompt]

Ok(value) == [ok |-> TRUE, val |-> value]

Throw(message) == [ok |-> FALSE, err |-> message]

NameError(expr) ==
    [etype |-> "NameError", text |-> "name is not defined", info |-> expr]

TypeErrorOperand(char) ==
    [etype |-> "TypeError", text |-> "unsupported operand type(s) for",
     info |-> <<OpTok(char)>>]

ZeroDivisionError ==
    [etype |-> "ZeroDivisionError", text |-> "division by zero", info |-> <<>>]

TypeErrorLoop(expr) ==
    [etype |-> "TypeError", text |-> "does not evaluate to an integer",
     info |-> expr]

SyntaxErrorInvalid ==
    [etype |-> "SyntaxError", text |-> "invalid syntax", info |-> <<>>]

SyntaxErrorUnsupported ==
    [etype |-> "SyntaxError", text |-> "invalid or unsupported syntax",
     info |-> <<>>]

----------------------------------------------------------------------------
(* evaluateExpression *)

\* A scan that stops at the first operator token among ops
FirstOperator(expr, ops) ==
    LET at == {n \in 1..Len(expr) : expr[n].k = "op" /\ expr[n].x \in ops}
    IN  IF at = {} THEN 0 ELSE CHOOSE n \in at : \A m \in at : n <= m

\* The index of the last operator token among ops, 0 when there is none: the
\* right-to-left scans of evaluateExpression.
LastOperator(expr, ops) ==
    LET at == {n \in 1..Len(expr) : expr[n].k = "op" /\ expr[n].x \in ops}
    IN  IF at = {} THEN 0 ELSE CHOOSE n \in at : \A m \in at : m <= n

\* left / right on operands whose quotient is an integer (the expressions of
\* the model divide exactly or by zero).
Quotient(left, right) ==
    IF (left < 0) = (right < 0) THEN (IF left < 0 THEN 0 - left ELSE left)
                                     \div (IF right < 0 THEN 0 - right ELSE right)
    ELSE 0 - ((IF left < 0 THEN 0 - left ELSE left)
              \div (IF right < 0 THEN 0 - right ELSE right))

Apply(char, left, right) ==
    CASE char = "+" -> left + right
      [] char = "-" -> left - right
      [] char = "*" -> left * right
      [] char = "/" -> Quotient(left, right)

RECURSIVE EvaluateExpression(_, _)
RECURSIVE ParseFactor(_, _)

ParseFactor(expr, scope) ==
    IF Len(expr) = 1 /\ expr[1].k = "str" THEN Ok(Str(expr[1].x))
    ELSE IF expr = <<>> THEN Ok(Num(0))
    ELSE IF Len(expr) = 1 /\ expr[1].k = "num" THEN Ok(Num(expr[1].x))
    ELSE IF Len(expr) = 1 /\ expr[1].k = "id" /\ expr[1].x \in DOMAIN scope
         THEN Ok(scope[expr[1].x])
    ELSE IF Len(expr) = 1 /\ expr[1].k = "input"
         THEN IF expr[1].x # <<>> THEN EvaluateExpression(expr[1].x, scope)
              ELSE Ok(Str(<<>>))
    ELSE Throw(NameError(expr))

\* An operation that makes the zero check before the operand-type check
BinaryOperationZeroFirst(expr, at, scope) ==
    LET char == expr[at].x
        left == EvaluateExpression(SubSeq(expr, 1, at - 1), scope)
        right == EvaluateExpression(SubSeq(expr, at + 1, Len(expr)), scope)
    IN  IF ~left.ok THEN left
        ELSE IF ~right.ok THEN right
        ELSE IF char = "/" /\ right.val = Num(0) THEN Throw(ZeroDivisionError)
        ELSE IF left.val.t # "num" \/ right.val.t # "num"
             THEN Throw(TypeErrorOperand(char))
        ELSE Ok(Num(Apply(char, left.val.v, right.val.v)))

\* An operation without the zero check: the division by 0 yields a number
BinaryOperationNoZeroCheck(expr, at, scope) ==
    LET char == expr[at].x
        left == EvaluateExpression(SubSeq(expr, 1, at - 1), scope)
        right == EvaluateExpression(SubSeq(expr, at + 1, Len(expr)), scope)
    IN  IF ~left.ok THEN left
        ELSE IF ~right.ok THEN right
        ELSE IF left.val.t # "num" \/ right.val.t # "num"
             THEN Throw(TypeErrorOperand(char))
        ELSE IF char = "/" /\ right.val.v = 0 THEN Ok(Num(0))
        ELSE Ok(Num(Apply(char, left.val.v, right.val.v)))

BinaryOperation(expr, at, scope) ==
    LET char == expr[at].x
        left == EvaluateExpression(SubSeq(expr, 1, at - 1), scope)
        right == EvaluateExpression(SubSeq(expr, at + 1, Len(expr)), scope)
    IN  IF ~left.ok THEN left
        ELSE IF ~right.ok THEN right
        ELSE IF left.val.t # "num" \/ right.val.t # "num"
             THEN Throw(TypeErrorOperand(char))
        ELSE IF char = "/" /\ right.val.v = 0 THEN Throw(ZeroDivisionError)
        ELSE Ok(Num(Apply(char, left.val.v, right.val.v)))

EvaluateExpression(expr, scope) ==
    LET additive == LastOperator(expr, {"+", "-"})
        multiplicative == LastOperator(expr, {"*", "/"})
    IN  IF additive > 0 THEN BinaryOperation(expr, additive, scope)
        ELSE IF multiplicative > 0 THEN BinaryOperation(expr, multiplicative, scope)
        ELSE ParseFactor(expr, scope)

----------------------------------------------------------------------------
(* Source lines and the statement patterns of getExecutionTrace *)

Line(indent, kind, var, expr) ==
    [indent |-> indent, kind |-> kind, var |-> var, expr |-> expr, abs |-> 0]

\* Mutant of IsSkipped: comment lines are not passed over
IsSkippedBlankOnly(line) == line.kind = "blank"

\* trimmedLine === '' || trimmedLine.startsWith('#')
IsSkipped(line) == line.kind \in {"blank", "comment"}

\* /^(\w+)\s*=\s*input\((.*)\)$/
InputMatch(line) ==
    line.kind = "assign" /\ Len(line.expr) = 1 /\ line.expr[1].k = "input"

\* /^for\s+(\w+)\s+in\s+range\((\w+)\):$/ : the limit is one \w+ word
ForLoopMatch(line) ==
    line.kind = "for" /\ Len(line.expr) = 1 /\ line.expr[1].k \in {"num", "id"}

\* /^(\w+)\s*=\s*(.*)$/
AssignmentMatch(line) == line.kind = "assign"

\* /^print\((.*)\)$/
PrintMatch(line) == line.kind = "print"

----------------------------------------------------------------------------
(* Execution steps *)

\* The provisional "Executing line" step; src is a ghost field, the number in
\* the outermost source of the line that produced the step.
ProvisionalStep(lineNumber, line, scope) ==
    [lineNumber |-> lineNumber,
     description |-> [d |-> "executing", line |-> line],
     variables |-> scope,
     output |-> <<>>,
     isError |-> FALSE,
     requiresInput |-> FALSE,
     inputVariable |-> <<>>,
     src |-> line.abs]

ReplaceLast(trace, step) == [trace EXCEPT ![Len(trace)] = step]

\* A pause step that is flagged as an error too
PauseStepFlagged(step, prompt, varName) ==
    [step EXCEPT !.description = [d |-> "awaiting"],
                 !.requiresInput = TRUE,
                 !.isError = TRUE,
                 !.inputVariable = <<varName>>]

\* trace[trace.length-1] = {...trace[trace.length-1], description: prompt ||
\* 'Awaiting user input...', requiresInput: true, inputVariable: varName}
PauseStep(step, prompt, varName) ==
    [step EXCEPT !.description = IF Truthy(prompt) THEN [d |-> "prompt", value |-> prompt]
                                 ELSE [d |-> "awaiting"],
                 !.requiresInput = TRUE,
                 !.inputVariable = <<varName>>]

LoopStartStep(step, loopLimit) ==
    [step EXCEPT !.description = [d |-> "loopstart", times |-> loopLimit]]

IterationStep(lineNumber, line, k, loopVar, scope) ==
    [lineNumber |-> lineNumber,
     description |-> [d |-> "iteration", k |-> k + 1, var |-> loopVar, value |-> k],
     variables |-> scope,
     output |-> <<>>,
     isError |-> FALSE,
     requiresInput |-> FALSE,
     inputVariable |-> <<>>,
     src |-> line.abs]

\* Mutant of AssignStep: the step's snapshot is not refreshed after the
\* assignment
AssignStepStale(step, value, varName, scope) ==
    [step EXCEPT !.description = [d |-> "assign", value |-> value, var |-> varName]]

AssignStep(step, value, varName, scope) ==
    [step EXCEPT !.description = [d |-> "assign", value |-> value, var |-> varName],
                 !.variables = scope]

\* Mutant of PrintStep: the output is not attached to the step
PrintStepNoOutput(step, value) == [step EXCEPT !.description = [d |-> "print"]]

PrintStep(step, value) ==
    [step EXCEPT !.description = [d |-> "print"],
                 !.output = <<StringOf(value)>>]

\* A copy that keeps the sub-trace's local line number
RemapKeepsLocal(step, loopBody) == step

\* trace.push({...step, lineNumber: loopBody[step.lineNumber-1].index + 1})
Remap(step, loopBody) ==
    [step EXCEPT !.lineNumber = loopBody[step.lineNumber].index + 1]

\* Mutant of CatchError: the last step is not popped before the error step
\* is pushed
CatchErrorNoPop(trace, lineNumber, errorMessage, scope) ==
    [trace |-> Append(trace,
                      [lineNumber |-> lineNumber,
                       description |-> errorMessage,
                       variables |-> IF trace # <<>> THEN trace[Len(trace)].variables
                                     ELSE scope,
                       output |-> <<>>,
                       isError |-> TRUE,
                       requiresInput |-> FALSE,
                       inputVariable |-> <<>>,
                       src |-> IF trace # <<>> THEN trace[Len(trace)].src ELSE 0]),
     error |-> <<errorMessage>>,
     scope |-> scope]

\* The catch block: the last step of the trace is popped and the error step
\* pushed, numbered with the line of the invocation that caught the error.
CatchError(trace, lineNumber, errorMessage, scope) ==
    LET popped == IF trace = <<>> THEN <<>> ELSE SubSeq(trace, 1, Len(trace) - 1)
        errorStep ==
            [lineNumber |-> lineNumber,
             description |-> errorMessage,
             variables |-> IF trace # <<>> THEN trace[Len(trace)].variables ELSE scope,
             output |-> <<>>,
             isError |-> TRUE,
             requiresInput |-> FALSE,
             inputVariable |-> <<>>,
             src |-> IF trace # <<>> THEN trace[Len(trace)].src ELSE 0]
    IN  [trace |-> Append(popped, errorStep), error |-> <<errorMessage>>,
         scope |-> scope]

----------------------------------------------------------------------------
(* getExecutionTrace *)

\* The while loop that collects the loop body: blank lines are passed over,
\* a line indented more than the header joins the body, the first other line
\* ends it.  The result holds the body ({line, index} pairs) and the final j.
\* A body collection that a blank line ends
RECURSIVE LoopBodyStopsAtBlank(_, _, _, _)
LoopBodyStopsAtBlank(lines, j, baseIndent, loopBody) ==
    IF j >= Len(lines) THEN [body |-> loopBody, j |-> j]
    ELSE LET nextLine == lines[j + 1]
         IN  IF nextLine.kind # "blank" /\ nextLine.indent > baseIndent
             THEN LoopBodyStopsAtBlank(lines, j + 1, baseIndent,
                           Append(loopBody, [line |-> nextLine, index |-> j]))
             ELSE [body |-> loopBody, j |-> j]

\* A body collection that no line ends: every line after the header that is
\* not blank joins the body
RECURSIVE LoopBodyToEnd(_, _, _, _)
LoopBodyToEnd(lines, j, baseIndent, loopBody) ==
    IF j >= Len(lines) THEN [body |-> loopBody, j |-> j]
    ELSE LET nextLine == lines[j + 1]
         IN  IF nextLine.kind = "blank"
             THEN LoopBodyToEnd(lines, j + 1, baseIndent, loopBody)
             ELSE LoopBodyToEnd(lines, j + 1, baseIndent,
                                Append(loopBody, [line |-> nextLine, index |-> j]))

RECURSIVE LoopBody(_, _, _, _)
LoopBody(lines, j, baseIndent, loopBody) ==
    IF j >= Len(lines) THEN [body |-> loopBody, j |-> j]
    ELSE LET nextLine == lines[j + 1]
         IN  IF nextLine.kind = "blank"
             THEN LoopBody(lines, j + 1, baseIndent, loopBody)
             ELSE IF nextLine.indent > baseIndent
             THEN LoopBody(lines, j + 1, baseIndent,
                           Append(loopBody, [line |-> nextLine, index |-> j]))
             ELSE [body |-> loopBody, j |-> j]

\* if (providedInput) { ... scope[providedInput.variable] = valueToAssign }
CoerceInput(value) ==
    IF ~NumberOf(value).nan /\ Trim(value) # <<>> THEN Num(NumberOf(value).v)
    ELSE Str(value)

\* Mutant of ProvidedBinding: the provided input is not bound
ProvidedBindingIgnored(initialScope, providedInput) == initialScope

ProvidedBinding(initialScope, providedInput) ==
    IF providedInput # <<>>
    THEN Bind(initialScope, providedInput[1].variable,
              CoerceInput(providedInput[1].value))
    ELSE initialScope

\* Mutant of Rethrows: the error of a loop body is not passed on
RethrowsNever(loopExecutor) == FALSE

\* if (loopExecutor.error) throw new Error(loopExecutor.error)
Rethrows(loopExecutor) == loopExecutor.error # <<>>

RECURSIVE ScanLines(_, _, _, _)
RECURSIVE RunIterations(_, _, _, _, _, _, _)
RECURSIVE Execute(_, _, _, _)

Max(a, b) == IF a >= b THEN a ELSE b

\* Ghost fields of the result of a scan: cursor is the sequence of the values
\* of i at which the body of the for loop over the lines was entered, depth
\* the depth of the sub-invocations made, outcome the return that was taken.
Visit(i, run) == [run EXCEPT !.cursor = <<i>> \o @]

Completed(trace, scope) ==
    [trace |-> trace, error |-> <<>>, scope |-> scope,
     cursor |-> <<>>, depth |-> 0, outcome |-> "completed"]

PausedAt(i, trace, scope) ==
    [trace |-> trace, error |-> <<>>, scope |-> scope,
     cursor |-> <<i>>, depth |-> 0, outcome |-> "paused"]

FailedAt(i, depth, caught) ==
    [trace |-> caught.trace, error |-> caught.error, scope |-> caught.scope,
     cursor |-> <<i>>, depth |-> depth, outcome |-> "failed"]

\* Mutant of RunIterations: the body runs once before the count is tested
RunIterationsAtLeastOnce(k, loopLimit, line, lineNumber, loopBody, scope, trace) ==
    IF k >= loopLimit /\ k > 0
    THEN [trace |-> trace, error |-> <<>>, scope |-> scope, depth |-> 0]
    ELSE LET loopVar == line.var
             bound == Bind(scope, loopVar, Num(k))
             pushed == Append(trace, IterationStep(lineNumber, line, k, loopVar, bound))
             loopExecutor ==
                 Execute([n \in 1..Len(loopBody) |-> loopBody[n].line], bound, 0, <<>>)
             merged == pushed \o [n \in 1..Len(loopExecutor.trace) |->
                                     Remap(loopExecutor.trace[n], loopBody)]
             folded == IF loopExecutor.trace = <<>> THEN bound
                       ELSE loopExecutor.trace[Len(loopExecutor.trace)].variables
             rest == RunIterations(k + 1, loopLimit, line, lineNumber, loopBody,
                                   folded, merged)
         IN  IF Rethrows(loopExecutor)
             THEN [trace |-> merged, error |-> loopExecutor.error, scope |-> folded,
                   depth |-> 1 + loopExecutor.depth]
             ELSE [rest EXCEPT !.depth = Max(@, 1 + loopExecutor.depth)]

\* for (let k = 0; k < loopLimit; k++) { ... }: the result is the trace and
\* scope at the end of the loop, with the message thrown out of it, if any,
\* and, as a ghost, the depth of the sub-invocations made (1 for a body
\* without a loop that ran).
RunIterations(k, loopLimit, line, lineNumber, loopBody, scope, trace) ==
    IF k >= loopLimit THEN [trace |-> trace, error |-> <<>>, scope |-> scope, depth |-> 0]
    ELSE LET loopVar == line.var
             bound == Bind(scope, loopVar, Num(k))
             pushed == Append(trace, IterationStep(lineNumber, line, k, loopVar, bound))
             loopExecutor ==
                 Execute([n \in 1..Len(loopBody) |-> loopBody[n].line], bound, 0, <<>>)
             merged == pushed \o [n \in 1..Len(loopExecutor.trace) |->
                                     Remap(loopExecutor.trace[n], loopBody)]
             folded == IF loopExecutor.trace = <<>> THEN bound
                       ELSE loopExecutor.trace[Len(loopExecutor.trace)].variables
             rest == RunIterations(k + 1, loopLimit, line, lineNumber, loopBody,
                                   folded, merged)
         IN  IF Rethrows(loopExecutor)
             THEN [trace |-> merged, error |-> loopExecutor.error, scope |-> folded,
                   depth |-> 1 + loopExecutor.depth]
             ELSE [rest EXCEPT !.depth = Max(@, 1 + loopExecutor.depth)]

\* The for loop over the lines, from index i, with the statement dispatch.
\* The result is {trace, error} and, as ghosts, the scope at the return and
\* the fields described above.
ScanLines(lines, i, scope, trace) ==
    IF i >= Len(lines) THEN Completed(trace, scope)
    ELSE
    LET lineNumber == i + 1
        line == lines[i + 1]
        pushed == Append(trace, ProvisionalStep(lineNumber, line, scope))
    IN  IF IsSkipped(line) THEN Visit(i, ScanLines(lines, i + 1, scope, trace))
        ELSE IF InputMatch(line) THEN
            LET promptExpr == line.expr[1].x
                prompt == IF promptExpr # <<>> THEN EvaluateExpression(promptExpr, scope)
                          ELSE Ok(Str(<<>>))
            IN  IF ~prompt.ok
                THEN FailedAt(i, 0, CatchError(pushed, lineNumber, prompt.err, scope))
                ELSE PausedAt(i, ReplaceLast(pushed, PauseStep(pushed[Len(pushed)],
                                                               prompt.val, line.var)),
                              scope)
        ELSE IF ForLoopMatch(line) THEN
            LET loopLimit == EvaluateExpression(line.expr, scope)
            IN  IF ~loopLimit.ok
                THEN FailedAt(i, 0, CatchError(pushed, lineNumber, loopLimit.err, scope))
                ELSE IF loopLimit.val.t # "num"
                THEN FailedAt(i, 0, CatchError(pushed, lineNumber,
                                               TypeErrorLoop(line.expr), scope))
                ELSE
                LET found == LoopBody(lines, i + 1, line.indent, <<>>)
                    started == ReplaceLast(pushed, LoopStartStep(pushed[Len(pushed)],
                                                                 loopLimit.val.v))
                    loop == RunIterations(0, loopLimit.val.v, line, lineNumber,
                                          found.body, scope, started)
                    rest == ScanLines(lines, found.j, loop.scope, loop.trace)
                IN  IF loop.error # <<>>
                    THEN FailedAt(i, loop.depth,
                                  CatchError(loop.trace, lineNumber, loop.error[1],
                                             loop.scope))
                    ELSE [Visit(i, rest) EXCEPT !.depth = Max(@, loop.depth)]
        ELSE IF AssignmentMatch(line) THEN
            IF line.expr = <<>>
            THEN FailedAt(i, 0, CatchError(pushed, lineNumber, SyntaxErrorInvalid, scope))
            ELSE
            LET value == EvaluateExpression(line.expr, scope)
            IN  IF ~value.ok
                THEN FailedAt(i, 0, CatchError(pushed, lineNumber, value.err, scope))
                ELSE LET assigned == Bind(scope, line.var, value.val)
                     IN  Visit(i, ScanLines(lines, i + 1, assigned,
                                   ReplaceLast(pushed, AssignStep(pushed[Len(pushed)],
                                               value.val, line.var, assigned))))
        ELSE IF PrintMatch(line) THEN
            LET value == EvaluateExpression(line.expr, scope)
            IN  IF ~value.ok
                THEN FailedAt(i, 0, CatchError(pushed, lineNumber, value.err, scope))
                ELSE Visit(i, ScanLines(lines, i + 1, scope,
                               ReplaceLast(pushed, PrintStep(pushed[Len(pushed)],
                                                             value.val))))
        ELSE FailedAt(i, 0, CatchError(pushed, lineNumber, SyntaxErrorUnsupported, scope))

\* The scope the scan starts from and the whole run, with the ghost scope
Execute(lines, initialScope, startLine, providedInput) ==
    ScanLines(lines, startLine, ProvidedBinding(initialScope, providedInput), <<>>)

GetExecutionTrace(lines, initialScope, startLine, providedInput) ==
    LET run == Execute(lines, initialScope, startLine, providedInput)
    IN  [trace |-> run.trace, error |-> run.error]

----------------------------------------------------------------------------
(* The programs and input texts of the model *)

Numbered(lines) == [n \in 1..Len(lines) |-> [lines[n] EXCEPT !.abs = n]]

Blank == Line(0, "blank", "", <<>>)

Comment(indent) == Line(indent, "comment", "", <<>>)

Assign(indent, var, expr) == Line(indent, "assign", var, expr)

Input(indent, var, prompt) == Line(indent, "assign", var, <<InputTok(prompt)>>)

For(indent, var, expr) == Line(indent, "for", var, expr)

PrintLine(indent, expr) == Line(indent, "print", "", expr)

Other(indent) == Line(indent, "other", "", <<>>)

Indents == {0, 1, 2}

\* x = 1 | x = x + 1 | x = input() | for i in range(LoopCount): | print(x),
\* at each indentation; an unsupported line, a blank line and a comment.
Vocabulary ==
    UNION {{Assign(n, "x", <<NumTok(1)>>),
            Assign(n, "x", <<IdTok("x"), OpTok("+"), NumTok(1)>>),
            Input(n, "x", <<>>),
            For(n, "i", <<NumTok(LoopCount)>>),
            PrintLine(n, <<IdTok("x")>>)} : n \in Indents}
    \cup {Other(0), Blank, Comment(0)}

GeneratedPrograms == UNION {[1..n -> Vocabulary] : n \in 1..MaxLines}

\* age = input("Age: ") / print(age)
AgeProgram ==
    <<Input(0, "age", <<StrTok(<<"A", "g", "e", ":", " ">>)>>),
      PrintLine(0, <<IdTok("age")>>)>>

\* count = 0 / for i in range(3): / count = count + 1
CountProgram ==
    <<Assign(0, "count", <<NumTok(0)>>),
      For(0, "i", <<NumTok(3)>>),
      Assign(2, "count", <<IdTok("count"), OpTok("+"), NumTok(1)>>)>>

\* for i in range(2): / for j in range(2): / x = input() / print(x) / print(x)
NestedInputProgram ==
    <<For(0, "i", <<NumTok(2)>>),
      For(2, "j", <<NumTok(2)>>),
      Input(4, "x", <<>>),
      PrintLine(4, <<IdTok("x")>>),
      PrintLine(0, <<IdTok("x")>>)>>

\* x = 1 / for i in range(2): / (blank) / for j in range(2): / x = x + y / print(x)
NestedErrorProgram ==
    <<Assign(0, "x", <<NumTok(1)>>),
      For(0, "i", <<NumTok(2)>>),
      Blank,
      For(2, "j", <<NumTok(2)>>),
      Assign(4, "x", <<IdTok("x"), OpTok("+"), IdTok("y")>>),
      PrintLine(0, <<IdTok("x")>>)>>

\* n = 1 / for i in range(n + 1): / print(i)
CompoundLimitProgram ==
    <<Assign(0, "n", <<NumTok(1)>>),
      For(0, "i", <<IdTok("n"), OpTok("+"), NumTok(1)>>),
      PrintLine(2, <<IdTok("i")>>)>>

\* n = 2 / for i in range(n): / print(i)
VariableLimitProgram ==
    <<Assign(0, "n", <<NumTok(2)>>),
      For(0, "i", <<IdTok("n")>>),
      PrintLine(2, <<IdTok("i")>>)>>

\* for i in range(2): / (blank) / for j in range(3): / (blank) / x = i + j /
\* print(x) / print(i)
NestedCountProgram ==
    <<For(0, "i", <<NumTok(2)>>),
      Blank,
      For(2, "j", <<NumTok(3)>>),
      Blank,
      Assign(4, "x", <<IdTok("i"), OpTok("+"), IdTok("j")>>),
      PrintLine(4, <<IdTok("x")>>),
      PrintLine(0, <<IdTok("i")>>)>>

\* x = 1 / for i in range(0): / x = x + 1 / print(x)
ZeroCountProgram ==
    <<Assign(0, "x", <<NumTok(1)>>),
      For(0, "i", <<NumTok(0)>>),
      Assign(2, "x", <<IdTok("x"), OpTok("+"), NumTok(1)>>),
      PrintLine(0, <<IdTok("x")>>)>>

\* n = 0 / for i in range(2): / for j in range(n): / print(j) / print(i)
ZeroInnerProgram ==
    <<Assign(0, "n", <<NumTok(0)>>),
      For(0, "i", <<NumTok(2)>>),
      For(2, "j", <<IdTok("n")>>),
      PrintLine(4, <<IdTok("j")>>),
      PrintLine(2, <<IdTok("i")>>)>>

ExamplePrograms ==
    {AgeProgram, CountProgram, NestedInputProgram, NestedErrorProgram,
     CompoundLimitProgram, VariableLimitProgram, NestedCountProgram,
     ZeroCountProgram, ZeroInnerProgram}

Programs == {Numbered(p) : p \in GeneratedPrograms \cup ExamplePrograms}

\* "30", "bob", "" and " 7"
Inputs == {<<"3", "0">>, <<"b", "o", "b">>, <<>>, <<" ", "7">>}

----------------------------------------------------------------------------
(* The driver: the first invocation and the resumptions *)

NoArgs == [initialScope |-> EmptyScope, startLine |-> 0, providedInput |-> <<>>]

\* No object and no invocation
NoMem == [heap |-> <<>>, frames |-> <<>>, held |-> <<>>]

\* The state of the App component after its construction; submits is a
\* ghost field, the record of the terminal submissions since the last run.
NoApp ==
    [currentStepIndex |-> -1, executionState |-> "idle", error |-> <<>>,
     isAwaitingInput |-> FALSE, submits |-> <<>>]

NoResponse == [trace |-> <<>>, error |-> <<>>]

\* Mutant of Invoke: the scope the last invocation ended with outlives it and
\* is the scope the next one starts from
InvokeKeepsScope(a) ==
    GetExecutionTrace(code,
                      IF executionTrace # <<>>
                      THEN executionTrace[Len(executionTrace)].variables
                      ELSE a.initialScope,
                      a.startLine, a.providedInput)

Invoke(a) == GetExecutionTrace(code, a.initialScope, a.startLine, a.providedInput)

\* calls is a ghost variable: the source text, the arguments and the result
\* of the first MaxCalls invocations the component made, in order.
Recorded(source, a, result) ==
    IF Len(calls) < MaxCalls
    THEN Append(calls, [code |-> source, args |-> a, response |-> result])
    ELSE calls

LastStep(trace) == trace[Len(trace)]

Paused(r) == r.trace # <<>> /\ LastStep(r.trace).requiresInput

\* The arguments of a resumption: the paused step's variables and the
\* supplied text for its inputVariable, from the given start line.
ResumeArgs(step, startLine, text) ==
    [initialScope |-> step.variables,
     startLine |-> startLine,
     providedInput |-> <<[variable |-> step.inputVariable[1], value |-> text]>>]

Init ==
    /\ code \in Programs
    /\ pc = "idle"
    /\ args = NoArgs
    /\ response = NoResponse
    /\ executionTrace = <<>>
    /\ supplied = <<>>
    /\ evaluated = <<>>
    /\ app = NoApp
    /\ mem = NoMem
    /\ calls = <<>>

\* getExecutionTrace(code): from line 0 with an empty scope
Run ==
    /\ pc = "idle"
    /\ args' = NoArgs
    /\ response' = Invoke(NoArgs)
    /\ executionTrace' = response'.trace
    /\ pc' = "returned"
    /\ UNCHANGED <<code, supplied, evaluated, app, mem, calls>>

\* The resumption of the paused last step: getExecutionTrace(code,
\* step.variables, step.lineNumber, {variable: step.inputVariable, value}),
\* the returned trace appended to the accumulated one.
Resume ==
    /\ pc \in {"returned", "resumed"}
    /\ Paused(response)
    /\ \E text \in Inputs :
          /\ supplied \in {<<>>, <<text>>}
          /\ supplied' = <<text>>
          /\ args' = ResumeArgs(LastStep(response.trace),
                                LastStep(response.trace).lineNumber, text)
    /\ response' = Invoke(args')
    /\ executionTrace' = executionTrace \o response'.trace
    /\ pc' = "resumed"
    /\ UNCHANGED <<code, evaluated, app, mem, calls>>

\* A direct call of the exported function from a paused result, with a
\* start line of the caller's choice; its trace is not accumulated.
Call ==
    /\ pc \in {"returned", "resumed"}
    /\ Paused(response)
    /\ \E text \in Inputs, startLine \in 0..Len(code) :
          /\ supplied \in {<<>>, <<text>>}
          /\ supplied' = <<text>>
          /\ args' = ResumeArgs(LastStep(response.trace), startLine, text)
    /\ response' = Invoke(args')
    /\ pc' = "called"
    /\ UNCHANGED <<code, executionTrace, evaluated, app, mem, calls>>

Next == Run \/ Resume \/ Call

Spec == Init /\ [][Next]_vars

----------------------------------------------------------------------------
(* The evaluation of one expression: the statement `x = <expression>` is   *)
(* run from line 0, in a scope that may hold a provided input.             *)

\* 0, 2, 4, n, t, s and "a"
Operands ==
    {NumTok(0), NumTok(2), NumTok(4), IdTok("n"), IdTok("t"), IdTok("s"),
     StrTok(<<"a">>)}

Operators == {OpTok("+"), OpTok("-"), OpTok("*"), OpTok("/")}

\* operand (operator operand)*, with n operands
Chains(n) ==
    {e \in [1..(2 * n - 1) -> Operands \cup Operators] :
        \A m \in 1..(2 * n - 1) :
           IF m % 2 = 1 THEN e[m] \in Operands ELSE e[m] \in Operators}

\* 3 * -2, 8 / -2 and 2 + -4
SignedExpressions ==
    {<<NumTok(3), OpTok("*"), OpTok("-"), NumTok(2)>>,
     <<NumTok(8), OpTok("/"), OpTok("-"), NumTok(2)>>,
     <<NumTok(2), OpTok("+"), OpTok("-"), NumTok(4)>>}

\* 5 +, * 3 and 4 /
OpenExpressions ==
    {<<NumTok(5), OpTok("+")>>,
     <<OpTok("*"), NumTok(3)>>,
     <<NumTok(4), OpTok("/")>>}

\* 3 + 4 * 2, 10 - 3 - 2, 8 / 4 / 2 and 5 / 0, and the expressions above
ExampleExpressions ==
    {<<NumTok(3), OpTok("+"), NumTok(4), OpTok("*"), NumTok(2)>>,
     <<NumTok(10), OpTok("-"), NumTok(3), OpTok("-"), NumTok(2)>>,
     <<NumTok(8), OpTok("/"), NumTok(4), OpTok("/"), NumTok(2)>>,
     <<NumTok(5), OpTok("/"), NumTok(0)>>}
    \cup SignedExpressions \cup OpenExpressions

\* n = 8, t = "hi"
InitialScope == Bind(Bind(EmptyScope, "n", Num(8)), "t", Str(<<"h", "i">>))

\* No provided input, or the text "bob" for s
ProvidedInputs == {<<>>, <<[variable |-> "s", value |-> <<"b", "o", "b">>]>>}

\* No division of the evaluation of expr has a quotient that is not an
\* integer.
RECURSIVE DividesExactly(_, _)
DividesExactly(expr, scope) ==
    LET additive == LastOperator(expr, {"+", "-"})
        at == IF additive > 0 THEN additive ELSE LastOperator(expr, {"*", "/"})
        leftExpr == SubSeq(expr, 1, at - 1)
        rightExpr == SubSeq(expr, at + 1, Len(expr))
        left == EvaluateExpression(leftExpr, scope)
        right == EvaluateExpression(rightExpr, scope)
    IN  at > 0 =>
           /\ DividesExactly(leftExpr, scope)
           /\ DividesExactly(rightExpr, scope)
           /\ (expr[at].x = "/" /\ left.ok /\ right.ok
                  /\ left.val.t = "num" /\ right.val.t = "num" /\ right.val.v # 0)
                 => left.val.v % right.val.v = 0

Expressions ==
    {e \in ExampleExpressions \cup UNION {Chains(n) : n \in 1..MaxOperands} :
        \A provided \in ProvidedInputs :
           DividesExactly(e, ProvidedBinding(InitialScope, provided))}

InitExpr ==
    /\ code \in {Numbered(<<Assign(0, "x", e)>>) : e \in Expressions}
    /\ args \in {[initialScope |-> InitialScope, startLine |-> 0,
                  providedInput |-> provided] : provided \in ProvidedInputs}
    /\ pc = "idle"
    /\ response = NoResponse
    /\ executionTrace = <<>>
    /\ supplied = <<>>
    /\ evaluated = <<>>
    /\ app = NoApp
    /\ mem = NoMem
    /\ calls = <<>>

\* evaluateExpression(expr, scope) in the scope getExecutionTrace has built,
\* and getExecutionTrace on the statement itself
Evaluate ==
    /\ pc = "idle"
    /\ evaluated' = <<EvaluateExpression(code[1].expr,
                     ProvidedBinding(args.initialScope, args.providedInput))>>
    /\ response' = Invoke(args)
    /\ pc' = "evaluated"
    /\ UNCHANGED <<code, args, executionTrace, supplied, app, mem, calls>>

NextExpr == Evaluate

SpecExpr == InitExpr /\ [][NextExpr]_vars

----------------------------------------------------------------------------
(* One invocation of getExecutionTrace on a program, with arguments of the *)
(* caller's choice                                                         *)

\* The start lines 0 and 1, without a provided input and with "30" for x
ScanArguments ==
    {[initialScope |-> EmptyScope, startLine |-> startLine, providedInput |-> provided] :
        startLine \in {0, 1},
        provided \in {<<>>, <<[variable |-> "x", value |-> <<"3", "0">>]>>}}

InitScan ==
    /\ code \in Programs
    /\ args \in ScanArguments
    /\ pc = "idle"
    /\ response = NoResponse
    /\ executionTrace = <<>>
    /\ supplied = <<>>
    /\ evaluated = <<>>
    /\ app = NoApp
    /\ mem = NoMem
    /\ calls = <<>>

Scan ==
    /\ pc = "idle"
    /\ response' = Invoke(args)
    /\ pc' = "scanned"
    /\ UNCHANGED <<code, args, executionTrace, supplied, evaluated, app, mem, calls>>

NextScan == Scan

SpecScan == InitScan /\ [][NextScan]_vars

----------------------------------------------------------------------------
(* The App component: its handlers and effects.  One action is one event   *)
(* with the renders and effects that follow it.                            *)

\* for i in range(2): / x = input() / print(x)
LoopInputProgram ==
    <<For(0, "i", <<NumTok(2)>>),
      Input(2, "x", <<>>),
      PrintLine(2, <<IdTok("x")>>)>>

\* x = 1 / print(y)
NameErrorProgram ==
    <<Assign(0, "x", <<NumTok(1)>>), PrintLine(0, <<IdTok("y")>>)>>

AppPrograms ==
    {Numbered(p) : p \in {AgeProgram, LoopInputProgram, CountProgram,
                          NameErrorProgram}}

\* "30" and "bob"
Commands == {<<"3", "0">>, <<"b", "o", "b">>}

\* const currentStep = ... ? executionTrace[currentStepIndex] : null
CurrentStep(a, trace) ==
    IF a.currentStepIndex >= 0 /\ a.currentStepIndex < Len(trace)
    THEN <<trace[a.currentStepIndex + 1]>> ELSE <<>>

\* useEffect(..., [currentStep])
StepEffect(a, trace) ==
    LET currentStep == CurrentStep(a, trace)
    IN  IF currentStep # <<>> /\ currentStep[1].requiresInput
        THEN [a EXCEPT !.isAwaitingInput = TRUE, !.executionState = "paused"]
        ELSE [a EXCEPT !.isAwaitingInput = FALSE]

\* useEffect(..., [executionState, currentStepIndex, executionTrace]), the
\* branch without the timer
EndEffect(a, trace) ==
    IF a.executionState = "running" /\ a.currentStepIndex >= Len(trace) - 1
    THEN [a EXCEPT !.executionState = "finished"] ELSE a

\* handleRun after its guard; state is the executionState the result meets:
\* "running", or "finished" when the end-of-trace effect of the render
\* before the result has run.
RunOutcome(result, state) ==
    IF result.error # <<>>
    THEN [NoApp EXCEPT !.error = result.error, !.executionState = "finished"]
    ELSE IF result.trace # <<>>
    THEN EndEffect(StepEffect([NoApp EXCEPT !.currentStepIndex = 0,
                                            !.executionState = state],
                              result.trace),
                   result.trace)
    ELSE [NoApp EXCEPT !.executionState = "finished"]

ThenPaused(a) == [a EXCEPT !.executionState = "paused"]

\* The variables after handleRun, and after handleRun().then(() =>
\* setExecutionState('paused')) when paused is set
Ran(paused) ==
    /\ args' = NoArgs
    /\ response' = Invoke(NoArgs)
    /\ calls' = Recorded(code, NoArgs, response')
    /\ executionTrace' = response'.trace
    /\ \E state \in {"running", "finished"} :
          app' = IF paused THEN ThenPaused(RunOutcome(response', state))
                 ELSE RunOutcome(response', state)
    /\ UNCHANGED <<code, pc, supplied, evaluated, mem>>

\* The variables after an event that only moves the component's state
Moved(a, stepChanged) ==
    /\ app' = EndEffect(IF stepChanged THEN StepEffect(a, executionTrace) ELSE a,
                        executionTrace)
    /\ UNCHANGED <<code, pc, args, response, executionTrace, supplied, evaluated, mem, calls>>

InitApp ==
    /\ code \in AppPrograms
    /\ pc = "idle"
    /\ args = NoArgs
    /\ response = NoResponse
    /\ executionTrace = <<>>
    /\ supplied = <<>>
    /\ evaluated = <<>>
    /\ app = NoApp
    /\ mem = NoMem
    /\ calls = <<>>

HandleRun ==
    /\ app.executionState # "running"
    /\ Ran(FALSE)

HandleTogglePlayPause ==
    CASE app.executionState = "running" ->
            Moved([app EXCEPT !.executionState = "paused"], FALSE)
      [] app.executionState \in {"paused", "finished"} ->
            IF app.currentStepIndex >= Len(executionTrace) - 1
            THEN Ran(FALSE)
            ELSE Moved([app EXCEPT !.executionState = "running"], FALSE)
      [] app.executionState = "idle" -> Ran(FALSE)

HandleNextStep ==
    IF executionTrace = <<>>
    THEN IF app.executionState = "running"
         THEN Moved(ThenPaused(app), FALSE)
         ELSE Ran(TRUE)
    ELSE IF app.currentStepIndex < Len(executionTrace) - 1
    THEN Moved([app EXCEPT !.currentStepIndex = @ + 1,
                           !.executionState = "paused"], TRUE)
    ELSE Moved(ThenPaused(app), FALSE)

HandlePrevStep ==
    IF app.currentStepIndex > 0
    THEN Moved([app EXCEPT !.currentStepIndex = @ - 1,
                           !.executionState = "paused"], TRUE)
    ELSE Moved(ThenPaused(app), FALSE)

HandleReset ==
    /\ app' = NoApp
    /\ executionTrace' = <<>>
    /\ code' = Numbered(<<Blank>>)
    /\ UNCHANGED <<pc, args, response, supplied, evaluated, mem, calls>>

HandleTerminalCommand ==
    /\ app.isAwaitingInput
    /\ CurrentStep(app, executionTrace) # <<>>
    /\ CurrentStep(app, executionTrace)[1].inputVariable # <<>>
    /\ Len(app.submits) < MaxSubmits
    /\ \E command \in Commands :
          LET currentStep == CurrentStep(app, executionTrace)[1]
              submit == [index |-> app.currentStepIndex,
                         length |-> Len(executionTrace),
                         requiresInput |-> currentStep.requiresInput]
          IN  /\ args' = ResumeArgs(currentStep, currentStep.lineNumber, command)
              /\ response' = Invoke(args')
              /\ calls' = Recorded(code, args', response')
              /\ executionTrace' = executionTrace \o response'.trace
              /\ app' = EndEffect(
                           [app EXCEPT !.isAwaitingInput = FALSE,
                                       !.error = IF response'.error # <<>>
                                                 THEN response'.error ELSE @,
                                       !.executionState =
                                           IF response'.error # <<>> THEN "finished"
                                           ELSE "running",
                                       !.submits = Append(@, submit)],
                           executionTrace')
    /\ UNCHANGED <<code, pc, supplied, evaluated, mem>>

\* The setTimeout callback of the running state
Timer ==
    /\ app.executionState = "running"
    /\ app.currentStepIndex < Len(executionTrace) - 1
    /\ LET nextStep == executionTrace[app.currentStepIndex + 2]
       IN  Moved([app EXCEPT !.currentStepIndex = @ + 1,
                             !.executionState =
                                 IF nextStep.isError \/ nextStep.requiresInput
                                 THEN "paused" ELSE @], TRUE)

NextApp ==
    \/ HandleRun
    \/ HandleTogglePlayPause
    \/ HandleNextStep
    \/ HandlePrevStep
    \/ HandleReset
    \/ HandleTerminalCommand
    \/ Timer

SpecApp == InitApp /\ [][NextApp]_vars

----------------------------------------------------------------------------
(* The objects of getExecutionTrace.  mem.heap holds the scope objects,    *)
(* an object's reference is its index; mem.frames is the stack of the      *)
(* invocations in progress, the last one the running one; mem.held is the  *)
(* trace the caller has accumulated.  A step is reduced to the reference   *)
(* of its variables object and its two flags, with a ghost field taken,    *)
(* the contents of that object when the step got it.  A frame holds the    *)
(* reference of the initialScope it was given, of its scope and its trace, *)
(* and two ghost fields: given, the contents of initialScope at the call,  *)
(* and caller, the caller's scope reference and its contents at the call.  *)
(* The statements run are any sequence of assignments, prints, inputs,     *)
(* failures and loop iterations.                                           *)

\* x = 1, x = 2
Stores == {[variable |-> "x", value |-> Num(1)], [variable |-> "x", value |-> Num(2)]}

\* for i in range(2)
LoopValues == {Num(0), Num(1)}

Top(m) == m.frames[Len(m.frames)]

WithTop(m, frame) == [m EXCEPT !.frames[Len(m.frames)] = frame]

Running(m) == m.frames # <<>> /\ ~Top(m).returned

\* An object literal: the new object and its reference
New(m, contents) == [m |-> [m EXCEPT !.heap = Append(@, contents)], ref |-> Len(m.heap) + 1]

\* A scope that is the caller's object itself
OwnScopeShares(m, initialScope) == [m |-> m, ref |-> initialScope]

\* let scope = { ...initialScope }
OwnScope(m, initialScope) == New(m, m.heap[initialScope])

\* A step that holds the live scope object itself
SnapshotShares(m, scope) == [m |-> m, ref |-> scope]

\* variables: { ...scope }
Snapshot(m, scope) == New(m, m.heap[scope])

\* getExecutionTrace(..., {...scope}) and scope = {...step.variables}
Handoff(m, scope) == New(m, m.heap[scope])

\* scope[name] = value
Store(m, scope, name, val) == [m EXCEPT !.heap[scope] = Bind(@, name, val)]

HeapStep(m, variables) ==
    [variables |-> variables, taken |-> m.heap[variables],
     requiresInput |-> FALSE, isError |-> FALSE]

\* The entry of an invocation: its own scope, the provided input bound in it
Enter(m, initialScope, providedInput, caller) ==
    LET own == OwnScope(m, initialScope)
        bound == IF providedInput # <<>>
                 THEN Store(own.m, own.ref, providedInput[1].variable,
                            providedInput[1].value)
                 ELSE own.m
    IN  [bound EXCEPT !.frames =
            Append(@, [initialScope |-> initialScope, given |-> m.heap[initialScope],
                       caller |-> caller, scope |-> own.ref, trace |-> <<>>,
                       returned |-> FALSE, error |-> FALSE])]

\* trace.push({lineNumber, description, variables: { ...scope }})
PushStep(m) ==
    LET taken == Snapshot(m, Top(m).scope)
    IN  WithTop(taken.m,
                [Top(m) EXCEPT !.trace = Append(@, HeapStep(taken.m, taken.ref))])

\* The catch block: trace.pop(), the error step with lastStep.variables
Catch(m) ==
    LET trace == Top(m).trace
        taken == Snapshot(m, Top(m).scope)
        popped == IF trace = <<>> THEN <<>> ELSE SubSeq(trace, 1, Len(trace) - 1)
        errorStep == IF trace # <<>>
                     THEN [trace[Len(trace)] EXCEPT !.isError = TRUE,
                                                    !.requiresInput = FALSE]
                     ELSE [HeapStep(taken.m, taken.ref) EXCEPT !.isError = TRUE]
    IN  WithTop(IF trace # <<>> THEN m ELSE taken.m,
                [Top(m) EXCEPT !.trace = Append(popped, errorStep),
                               !.returned = TRUE, !.error = TRUE])

Room(n) == Len(mem.heap) + n <= MaxObjects

others ==
    <<code, pc, args, response, executionTrace, supplied, evaluated, app, calls>>

InitHeap ==
    /\ code = Numbered(<<Blank>>)
    /\ pc = "idle"
    /\ args = NoArgs
    /\ response = NoResponse
    /\ executionTrace = <<>>
    /\ supplied = <<>>
    /\ evaluated = <<>>
    /\ app = NoApp
    /\ mem = NoMem
    /\ calls = <<>>

\* getExecutionTrace(code): initialScope is the default {}
FirstInvocation ==
    /\ mem.frames = <<>> /\ mem.heap = <<>>
    /\ LET default == New(mem, EmptyScope)
       IN  mem' = Enter(default.m, default.ref, <<>>, <<>>)
    /\ UNCHANGED others

\* getExecutionTrace(code, currentStep.variables, currentStep.lineNumber,
\* {variable, value}) for a step of the accumulated trace that requires input
Resumption ==
    /\ mem.frames = <<>>
    /\ Room(1)
    /\ \E n \in 1..Len(mem.held), provided \in Stores :
          /\ mem.held[n].requiresInput
          /\ mem' = Enter(mem, mem.held[n].variables, <<provided>>, <<>>)
    /\ UNCHANGED others

\* var = expression
Assignment ==
    /\ Running(mem) /\ Room(2)
    /\ \E store \in Stores :
          LET pushed == PushStep(mem)
              stored == Store(pushed, Top(mem).scope, store.variable, store.value)
              taken == Snapshot(stored, Top(mem).scope)
          IN  mem' = WithTop(taken.m,
                        [Top(stored) EXCEPT !.trace[Len(Top(stored).trace)] =
                                               HeapStep(taken.m, taken.ref)])
    /\ UNCHANGED others

\* print(expression), and the loop-start step
PrintStatement ==
    /\ Running(mem) /\ Room(1)
    /\ mem' = PushStep(mem)
    /\ UNCHANGED others

\* var = input(...): the provisional step is replaced and the invocation
\* returns
InputStatement ==
    /\ Running(mem) /\ Room(1)
    /\ LET pushed == PushStep(mem)
       IN  mem' = WithTop(pushed,
                     [Top(pushed) EXCEPT !.trace[Len(Top(pushed).trace)].requiresInput = TRUE,
                                         !.returned = TRUE])
    /\ UNCHANGED others

\* A statement that throws
FailingStatement ==
    /\ Running(mem) /\ Room(1)
    /\ mem' = Catch(PushStep(mem))
    /\ UNCHANGED others

\* One iteration up to the call: scope[loopVar] = k, the iteration step,
\* getExecutionTrace(body, {...scope})
Iteration ==
    /\ Running(mem) /\ Room(3)
    /\ Len(mem.frames) < MaxDepth
    /\ \E k \in LoopValues :
          LET bound == Store(mem, Top(mem).scope, "i", k)
              pushed == PushStep(bound)
              passed == Handoff(pushed, Top(mem).scope)
          IN  mem' = Enter(passed.m, passed.ref, <<>>,
                           <<[scope |-> Top(mem).scope,
                              contents |-> bound.heap[Top(mem).scope]]>>)
    /\ UNCHANGED others

\* The end of the lines: return { trace, error: null }
Completion ==
    /\ Running(mem)
    /\ mem' = WithTop(mem, [Top(mem) EXCEPT !.returned = TRUE])
    /\ UNCHANGED others

\* The return of a loop-body invocation: its steps are copied, the scope
\* is replaced by a copy of the last step's variables, its error is
\* rethrown
LoopReturn ==
    /\ Len(mem.frames) >= 2 /\ Top(mem).returned
    /\ Room(1)
    /\ LET loopExecutor == Top(mem)
           back == [mem EXCEPT !.frames = SubSeq(@, 1, Len(@) - 1)]
           copied == WithTop(back, [Top(back) EXCEPT !.trace = @ \o loopExecutor.trace])
           folded == IF loopExecutor.trace = <<>> THEN [m |-> copied, ref |-> Top(back).scope]
                     ELSE Handoff(copied,
                            loopExecutor.trace[Len(loopExecutor.trace)].variables)
           updated == WithTop(folded.m, [Top(copied) EXCEPT !.scope = folded.ref])
       IN  mem' = IF loopExecutor.error THEN Catch(updated) ELSE updated
    /\ UNCHANGED others

\* The return to the App: setExecutionTrace(prev => [...prev, ...result.trace])
Delivery ==
    /\ Len(mem.frames) = 1 /\ Top(mem).returned
    /\ mem' = [mem EXCEPT !.held = @ \o Top(mem).trace, !.frames = <<>>]
    /\ UNCHANGED others

NextHeap ==
    \/ FirstInvocation
    \/ Resumption
    \/ Assignment
    \/ PrintStatement
    \/ InputStatement
    \/ FailingStatement
    \/ Iteration
    \/ Completion
    \/ LoopReturn
    \/ Delivery

SpecHeap == InitHeap /\ [][NextHeap]_vars

----------------------------------------------------------------------------
(* Definitions shared by the properties *)

\* A line that is neither blank nor a comment
IsStatement(line) == line.kind \notin {"blank", "comment"}

Executable(lines, from, to) == {n \in from..to : n <= Len(lines) /\ IsStatement(lines[n])}

\* The 1-based number of the first executable line with 0-based index >= s,
\* 0 when there is none
FirstExecutable(lines, s) ==
    LET rest == Executable(lines, s + 1, Len(lines))
    IN  IF rest = {} THEN 0 ELSE CHOOSE n \in rest : \A m \in rest : n <= m

Count(trace, P(_)) == Cardinality({n \in 1..Len(trace) : P(trace[n])})

IsKind(step, kind) == ~step.isError /\ step.description.d = kind

IsLoopStart(step) == IsKind(step, "loopstart")

IsIteration(step) == IsKind(step, "iteration")

IsAssignment(step) == IsKind(step, "assign")

HasOutput(step) == step.output # <<>>

\* The print outputs of a trace, in order
Outputs(trace) ==
    LET printed == SelectSeq(trace, HasOutput)
    IN  [n \in 1..Len(printed) |-> printed[n].output[1]]

Returned == pc # "idle"

ProvidedVariable == args.providedInput[1].variable

ProvidedText == args.providedInput[1].value

----------------------------------------------------------------------------
(* C1 *)

\* C1: in every returned trace a step with requiresInput = true is the last
\* step: nothing is produced after the first input statement reached.
PausedStepIsLast ==
    \A n \in 1..Len(response.trace) :
        response.trace[n].requiresInput => n = Len(response.trace)

----------------------------------------------------------------------------
(* C2 *)

LiteralOf(value) ==
    IF value.t = "str" THEN <<StrTok(value.v)>>
    ELSE IF value.v < 0 THEN <<OpTok("-"), NumTok(0 - value.v)>>
    ELSE <<NumTok(value.v)>>

\* The program with every input statement replaced by a direct assignment of
\* the supplied value
Substituted(lines, text) ==
    [n \in 1..Len(lines) |->
        IF InputMatch(lines[n])
        THEN [lines[n] EXCEPT !.expr = LiteralOf(CoerceInput(text))]
        ELSE lines[n]]

ProtocolDone == pc \in {"returned", "resumed"} /\ ~Paused(response)

\* C2: when the resumption protocol has run to its end, the concatenated
\* traces give the print outputs and the final scope of the program in which
\* every input statement is a direct assignment of the supplied value.
ResumptionEquivalence ==
    (ProtocolDone /\ supplied # <<>>) =>
        LET direct == Execute(Substituted(code, supplied[1]), EmptyScope, 0, <<>>)
            last == Execute(code, args.initialScope, args.startLine, args.providedInput)
        IN  /\ Outputs(executionTrace) = Outputs(direct.trace)
            /\ last.scope = direct.scope

----------------------------------------------------------------------------
(* C3 *)

\* The first executed statement is a plain assignment to the provided variable
OverwritesProvided(line) ==
    AssignmentMatch(line) /\ ~InputMatch(line) /\ line.var = ProvidedVariable

\* C3: an invocation with a provided input and start line s emits its first
\* step for the first executable line of index >= s, with the coerced value
\* bound under the variable in that step's variables (unless that statement
\* itself assigns the variable); no step belongs to a line of index < s, and
\* with no executable line left the trace is empty and the error null.
ProvidedInputBoundSilently ==
    pc \in {"resumed", "called"} =>
        LET s == args.startLine
            first == FirstExecutable(code, s)
            trace == response.trace
        IN  IF first = 0 THEN response = NoResponse
            ELSE /\ trace # <<>>
                 /\ trace[1].lineNumber = first
                 /\ ProvidedVariable \in DOMAIN trace[1].variables
                 /\ ~(OverwritesProvided(code[first]) /\ ~trace[1].isError) =>
                        trace[1].variables[ProvidedVariable] = CoerceInput(ProvidedText)
                 /\ \A n \in 1..Len(trace) :
                        trace[n].lineNumber > s /\ trace[n].src > s

\* C3 witness: a resumption after a blank line whose first step shows the
\* text "30" bound as the number 30
ProvidedInputWitness ==
    /\ pc = "resumed"
    /\ response.trace # <<>>
    /\ ProvidedText = <<"3", "0">>
    /\ response.trace[1].lineNumber > args.startLine + 1
    /\ response.trace[1].variables[ProvidedVariable] = Num(30)

----------------------------------------------------------------------------
(* C4 *)

IsAgeRun == code = Numbered(AgeProgram)

HasPrint30(trace) ==
    \E n \in 1..Len(trace) : trace[n].output = <<(<<"3", "0">>)>>

AgeFirstInvocation ==
    (IsAgeRun /\ pc = "returned") =>
        /\ Len(response.trace) = 1
        /\ response.trace[1].requiresInput
        /\ response.trace[1].inputVariable = <<"age">>
        /\ response.error = <<>>

AgeSecondInvocation(startLine) ==
    (/\ IsAgeRun
     /\ pc \in {"resumed", "called"}
     /\ args.startLine = startLine
     /\ args.providedInput = <<[variable |-> "age", value |-> <<"3", "0">>]>>) =>
        HasPrint30(response.trace) /\ response.error = <<>>

\* C4 as stated: the second invocation, with the start line of the first
\* one (0), returns a trace with a print step of output "30" and no error.
InputRoundTripSameStartLine == AgeFirstInvocation /\ AgeSecondInvocation(0)

\* C4 as amended: the second invocation starts at the paused step's
\* lineNumber (1).
InputRoundTripFromPausedLine == AgeFirstInvocation /\ AgeSecondInvocation(1)

\* C4 witness: the age program resumed with "30" has printed "30"
InputRoundTripWitness ==
    /\ IsAgeRun
    /\ pc = "resumed"
    /\ args.startLine = 1
    /\ supplied = <<(<<"3", "0">>)>>
    /\ HasPrint30(response.trace)

----------------------------------------------------------------------------
(* C5 *)

\* C5: the returned error is non-null exactly when the trace is non-empty
\* and its last step has isError = true.
ErrorIffLastStepIsError ==
    (response.error # <<>>) <=>
        (response.trace # <<>> /\ LastStep(response.trace).isError)

\* C5 witness: an error propagated out of a loop body (the loop-start step
\* of the failing loop is in the trace)
ErrorFromLoopBodyWitness ==
    /\ response.error # <<>>
    /\ LastStep(response.trace).isError
    /\ \E n \in 1..Len(response.trace) : IsLoopStart(response.trace[n])
    /\ LastStep(response.trace).src # LastStep(response.trace).lineNumber

----------------------------------------------------------------------------
(* C6 *)

IsErrorStep(step) == step.isError

\* C6: a trace holds at most one step with isError = true, exactly one when
\* an error is returned, and it is the last step: nothing runs after a
\* failure, at top level or in a loop body.
SingleTerminalErrorStep ==
    /\ \A n \in 1..Len(response.trace) :
          response.trace[n].isError => n = Len(response.trace)
    /\ response.error # <<>> => Count(response.trace, IsErrorStep) = 1

\* C6 witness: a failure two loops deep, before the last iteration
NestedFailureWitness ==
    /\ response.error # <<>>
    /\ Count(response.trace, IsLoopStart) = 2
    /\ Count(response.trace, IsIteration) = 2
    /\ LastStep(response.trace).src > LastStep(response.trace).lineNumber + 1

----------------------------------------------------------------------------
(* C7 *)

\* The last invocation returned an error raised by the top-level statement
\* of the error step's line itself (not passed on from a loop body)
TopLevelRaise ==
    /\ Returned
    /\ response.error # <<>>
    /\ LastStep(response.trace).src = LastStep(response.trace).lineNumber

\* The last invocation on the source cut off before line L
Before(L) ==
    Execute(SubSeq(code, 1, L - 1), args.initialScope, args.startLine,
            args.providedInput)

\* One error step for line L, described by the returned error, with the scope
\* before the statement; the steps before it are those of the run that stops
\* before L, and the failure leaves the scope as it was
FailedStatementReplaced ==
    LET trace == response.trace
        step == LastStep(trace)
        L == step.lineNumber
    IN  /\ step.isError
        /\ step.description = response.error[1]
        /\ step.variables = Before(L).scope
        /\ SubSeq(trace, 1, Len(trace) - 1) = Before(L).trace
        /\ Before(L).error = <<>>
        /\ Execute(code, args.initialScope, args.startLine,
                   args.providedInput).scope = Before(L).scope

\* The trace is as long as the number of executable statements attempted
LengthIsStatementsAttempted ==
    Len(response.trace) =
        Cardinality(Executable(code, args.startLine + 1,
                               LastStep(response.trace).lineNumber))

\* C7 as stated: a failing top-level statement leaves exactly one error step
\* in place of its provisional step, and the trace length is the number of
\* executable statements attempted.
FailedStatementOneStepPerStatement ==
    TopLevelRaise => (FailedStatementReplaced /\ LengthIsStatementsAttempted)

\* C7 as amended: the same, the trace length being the number of statements
\* attempted when no loop has run before the failing line.
FailedStatementOneStep ==
    TopLevelRaise =>
        /\ FailedStatementReplaced
        /\ Count(response.trace, IsLoopStart) = 0 => LengthIsStatementsAttempted

\* C7 witness: after at least one earlier step, an assignment to a bound
\* variable fails and leaves the variable as it was
FailedAssignmentWitness ==
    /\ TopLevelRaise
    /\ Len(response.trace) >= 2
    /\ LET step == LastStep(response.trace)
           line == code[step.lineNumber]
       IN  /\ AssignmentMatch(line)
           /\ line.var \in DOMAIN step.variables
           /\ step.variables[line.var] =
                  response.trace[Len(response.trace) - 1].variables[line.var]

----------------------------------------------------------------------------
(* C8 *)

\* C8: every step carries the number, in the outermost source, of the line
\* that produced it; the error step of a failing body line included.
StepLineIsSourceLine ==
    \A n \in 1..Len(response.trace) :
        response.trace[n].lineNumber = response.trace[n].src

----------------------------------------------------------------------------
(* C9 *)

\* Every line is blank, a comment, a plain assignment or a print call
PlainProgram(lines) ==
    \A n \in 1..Len(lines) :
        /\ lines[n].kind \in {"blank", "comment", "assign", "print"}
        /\ ~InputMatch(lines[n])

PlainRun == PlainProgram(code) /\ pc = "returned"

\* C9 as stated: a program of plain assignments and prints completes, with
\* one step per non-blank, non-comment line.
PlainProgramCompletes ==
    PlainRun =>
        /\ response.error = <<>>
        /\ Len(response.trace) = Cardinality(Executable(code, 1, Len(code)))

\* C9 as amended: it completes unless a statement raises, with one step per
\* non-blank, non-comment line up to the last line run; blank lines and
\* comments produce no step.
PlainProgramOneStepPerLine ==
    PlainRun =>
        LET trace == response.trace
            upTo == IF response.error = <<>> THEN Len(code)
                    ELSE LastStep(trace).lineNumber
        IN  /\ Len(trace) = Cardinality(Executable(code, 1, upTo))
            /\ \A n \in 1..Len(trace) :
                  /\ IsStatement(code[trace[n].lineNumber])
                  /\ trace[n].isError <=> (response.error # <<>> /\ n = Len(trace))
                  /\ n > 1 => trace[n - 1].lineNumber < trace[n].lineNumber

\* C9 witness: a completed plain program of a comment, an assignment and a
\* print
PlainProgramWitness ==
    /\ PlainRun
    /\ response.error = <<>>
    /\ Len(response.trace) = 2
    /\ HasOutput(LastStep(response.trace))
    /\ \E n \in 1..Len(code) : code[n].kind = "comment"

----------------------------------------------------------------------------
(* C10 *)

IsCountRun == code = Numbered(CountProgram) /\ pc = "returned"

CountLoopSteps(assignments, total) ==
    LET trace == response.trace
    IN  /\ Count(trace, IsLoopStart) = 1
        /\ Count(trace, IsIteration) = 3
        /\ Count(trace, IsAssignment) = assignments
        /\ Len(trace) = total
        /\ response.error = <<>>
        /\ LastStep(trace).variables["count"] = Num(3)
        /\ LastStep(trace).variables["i"] = Num(2)

\* C10 as stated: one loop-start step, 3 iteration-start steps and 3
\* assignment steps, 7 steps in total, count = 3 and i = 2 at the end.
LoopFidelitySevenSteps == IsCountRun => CountLoopSteps(3, 7)

\* C10 as amended: with the step of `count = 0` there are 4 assignment
\* steps, 8 steps in total.
LoopFidelityEightSteps == IsCountRun => CountLoopSteps(4, 8)

\* C10 witness: the counting program has returned count = 3
LoopFidelityWitness ==
    /\ IsCountRun
    /\ response.trace # <<>>
    /\ LastStep(response.trace).variables["count"] = Num(3)

----------------------------------------------------------------------------
(* C11 *)

\* The number of the first non-blank line after the header H whose
\* indentation is not greater than the header's, Len(lines) + 1 when
\* there is none
BodyEnd(lines, H) ==
    LET ends == {n \in (H + 1)..Len(lines) :
                    lines[n].kind # "blank" /\ lines[n].indent <= lines[H].indent}
    IN  IF ends = {} THEN Len(lines) + 1 ELSE CHOOSE n \in ends : \A m \in ends : n <= m

\* The statements of the body of H that are not in the body of a loop
\* nested in it
DirectBody(lines, H) ==
    {n \in (H + 1)..(BodyEnd(lines, H) - 1) :
        /\ IsStatement(lines[n])
        /\ \A inner \in (H + 1)..(n - 1) :
              lines[inner].kind = "for" => n >= BodyEnd(lines, inner)}

IsIterationOf(step, H) == IsIteration(step) /\ step.src = H

\* A step of the loop of header H: one of its iteration-start steps or a
\* step of one of its body lines
InLoop(step, lines, H) ==
    IsIterationOf(step, H) \/ (H < step.src /\ step.src < BodyEnd(lines, H))

\* The last position of the run of steps of the loop that follows its
\* loop-start step at position p
SegmentEnd(trace, lines, p, H) ==
    CHOOSE q \in p..Len(trace) :
        /\ \A r \in (p + 1)..q : InLoop(trace[r], lines, H)
        /\ q < Len(trace) => ~InLoop(trace[q + 1], lines, H)

\* The iteration-start steps are numbered 1, 2, ... and bind the loop
\* variable to 0, 1, ...; all of them are there unless the run failed
\* inside the loop.
IterationsInOrder(trace, lines, p, H) ==
    LET q == SegmentEnd(trace, lines, p, H)
        starts == {r \in (p + 1)..q : IsIterationOf(trace[r], H)}
        rank(r) == Cardinality({s \in starts : s <= r})
    IN  /\ \A r \in starts :
              /\ trace[r].description.k = rank(r)
              /\ trace[r].description.var = lines[H].var
              /\ trace[r].description.value = rank(r) - 1
              /\ trace[r].variables[lines[H].var] = Num(rank(r) - 1)
        /\ \/ Cardinality(starts) = trace[p].description.times
           \/ q = Len(trace) /\ trace[q].isError
        /\ trace[p].description.times > 0 =>
              p < Len(trace) /\ IsIterationOf(trace[p + 1], H)

\* The statements of the body of H that one iteration reaches: its own
\* statements up to its first input() assignment
ReachedBody(lines, H) ==
    {n \in DirectBody(lines, H) :
        \A m \in DirectBody(lines, H) :
           m < n => ~(lines[m].kind = "assign" /\ lines[m].expr # <<>>
                        /\ lines[m].expr[1].k = "input")}

\* Within one iteration the steps of the body's own statements are in
\* source order, and every iteration has a step of each statement it
\* reaches unless the run failed in it.
BodyInSourceOrder(trace, lines, p, H) ==
    LET q == SegmentEnd(trace, lines, p, H)
        own == {r \in (p + 1)..q :
                   ~IsIteration(trace[r]) /\ trace[r].src \in DirectBody(lines, H)}
        starts == {r \in (p + 1)..q : IsIterationOf(trace[r], H)}
        last(r) == CHOOSE e \in r..q :
                      /\ \A s \in (r + 1)..e : s \notin starts
                      /\ e < q => (e + 1) \in starts
        sources(r) == {trace[s].src : s \in {o \in own : r < o /\ o <= last(r)}}
    IN  /\ \A r1, r2 \in own :
              (r1 < r2 /\ \A r \in r1..r2 : ~IsIterationOf(trace[r], H))
                 => trace[r1].src < trace[r2].src
        /\ \A r \in starts :
              \/ sources(r) = ReachedBody(lines, H)
              \/ /\ last(r) = Len(trace)
                 /\ trace[Len(trace)].isError
                 /\ sources(r) \subseteq ReachedBody(lines, H)

\* After the loop no body line is executed again unless the loop is
\* started again, and the next step is of the first statement at or
\* after the end of the body.
ContinuesAfterBody(trace, lines, p, H) ==
    LET q == SegmentEnd(trace, lines, p, H)
        E == BodyEnd(lines, H)
    IN  /\ \A r \in (q + 1)..Len(trace) :
              (H < trace[r].src /\ trace[r].src < E)
                 => \E again \in (q + 1)..(r - 1) :
                       IsLoopStart(trace[again]) /\ trace[again].src = H
        /\ (q < Len(trace) /\ trace[q + 1].src >= E)
              => Executable(lines, E, trace[q + 1].src - 1) = {}

\* C11: in a returned trace the steps of a for-loop are its loop-start
\* step, then for each iteration in order an iteration-start step binding
\* the loop variable to k followed by that iteration's body steps in source
\* order; they precede every step of a line after the loop, execution
\* continues at the first non-blank line indented no deeper than the
\* header, and no body line runs again as a top-level statement.
LoopStepsInOrder ==
    \A p \in 1..Len(response.trace) :
       IsLoopStart(response.trace[p]) =>
          LET H == response.trace[p].src
          IN  /\ IterationsInOrder(response.trace, code, p, H)
              /\ BodyInSourceOrder(response.trace, code, p, H)
              /\ ContinuesAfterBody(response.trace, code, p, H)

\* C11 witness: a loop with a body step has run all its iterations and a
\* statement after the body has been executed.
LoopStepsWitness ==
    /\ pc = "returned"
    /\ response.error = <<>>
    /\ \E p \in 1..Len(response.trace) :
          /\ IsLoopStart(response.trace[p])
          /\ Count(response.trace, IsIteration) = LoopCount
          /\ LET q == SegmentEnd(response.trace, code, p, response.trace[p].src)
             IN  /\ q > p + 1
                 /\ q < Len(response.trace)
                 /\ response.trace[q + 1].src >= BodyEnd(code, response.trace[p].src)

----------------------------------------------------------------------------
(* C18 *)

ErrorAndInput(step) == step.isError /\ step.requiresInput

\* C18: no step of a returned trace, and none of the accumulated trace,
\* has both isError and requiresInput true.
NeverErrorAndInput ==
    /\ Count(response.trace, ErrorAndInput) = 0
    /\ Count(executionTrace, ErrorAndInput) = 0

IsPauseStep(step) == step.requiresInput

\* C18 witness: a returned trace holds paused steps copied from a loop
\* body and ends with an error step.
ErrorAfterPauseWitness ==
    /\ pc = "returned"
    /\ response.error # <<>>
    /\ Count(response.trace, IsPauseStep) = LoopCount
    /\ LastStep(response.trace).isError

----------------------------------------------------------------------------
(* C19 *)

IsNumber(result) == result.ok /\ result.val.t = "num"

\* The value of the limit of the header of source line H in the scope of
\* a step
LimitOf(step, H) == EvaluateExpression(code[H].expr, step.variables)

\* C19: a for-range header whose limit evaluates to a number does not fail
\* and its loop runs that many times, whatever the shape of the limit.
NumericLimitRuns ==
    \A p \in 1..Len(response.trace) :
       LET step == response.trace[p]
           H == step.src
       IN  (H > 0 /\ code[H].kind = "for" /\ ~IsIteration(step)
               /\ IsNumber(LimitOf(step, H)))
              => /\ IsLoopStart(step)
                 /\ step.description.times = LimitOf(step, H).val.v
                 /\ IterationsInOrder(response.trace, code, p, H)

----------------------------------------------------------------------------
(* C20 *)

IsSimple(line) ==
    \/ line.kind = "print"
    \/ line.kind = "assign" /\ ~(line.expr # <<>> /\ line.expr[1].k = "input")

\* An outer header, an inner header among the outer body's own statements
\* and a simple statement among the inner body's own statements, the outer
\* header in the body of no other loop
Nested(lines, outer, inner, L) ==
    /\ lines[outer].kind = "for" /\ lines[inner].kind = "for"
    /\ inner \in DirectBody(lines, outer)
    /\ L \in DirectBody(lines, inner)
    /\ IsSimple(lines[L])
    /\ \A H \in 1..(outer - 1) : lines[H].kind = "for" => outer >= BodyEnd(lines, H)

AtLine(trace, L, P(_)) ==
    Cardinality({n \in 1..Len(trace) : trace[n].lineNumber = L /\ P(trace[n])})

IsAnyStep(step) == TRUE

\* The loop counts of the two headers, read from the evaluation of their
\* limits in the scope of the first step
Times(trace, H) == EvaluateExpression(code[H].expr, trace[1].variables).val.v

\* C20: in a completed run of two nested loops with counts a and b a
\* simple statement of the inner body at line L has a*b steps, all with
\* lineNumber L, the inner loop-start step appears a times with the inner
\* header's line number, and with distinct loop variables and a, b >= 1 the
\* outer one is a-1 and the inner one b-1 after the loops.
NestedLoopSteps ==
    (pc = "returned" /\ response.error = <<>>
        /\ Count(response.trace, IsPauseStep) = 0) =>
       \A outer, inner, L \in 1..Len(code) :
          Nested(code, outer, inner, L) =>
             LET trace == response.trace
                 a == Times(trace, outer)
                 b == Times(trace, inner)
                 after == trace[SegmentEnd(trace, code,
                                CHOOSE p \in 1..Len(trace) :
                                   IsLoopStart(trace[p]) /\ trace[p].src = outer,
                                outer)]
             IN  /\ AtLine(trace, L, IsAnyStep) = a * b
                 /\ Cardinality({n \in 1..Len(trace) : trace[n].src = L}) = a * b
                 /\ AtLine(trace, inner, IsLoopStart) = a
                 /\ (code[outer].var # code[inner].var /\ a >= 1 /\ b >= 1) =>
                       /\ after.variables[code[outer].var] = Num(a - 1)
                       /\ after.variables[code[inner].var] = Num(b - 1)

\* C20 witness: the nested counting program, with blank lines in both
\* bodies, has completed with 6 steps of its inner assignment.
NestedLoopWitness ==
    /\ code = Numbered(NestedCountProgram)
    /\ pc = "returned"
    /\ response.error = <<>>
    /\ AtLine(response.trace, 5, IsAssignment) = 6
    /\ LastStep(response.trace).variables["j"] = Num(2)

----------------------------------------------------------------------------
(* Definitions shared by the properties of expressions *)

Evaluated == pc = "evaluated"

Expression == code[1].expr

\* operand (operator operand)*
IsChain(expr) ==
    /\ Len(expr) % 2 = 1
    /\ \A m \in 1..Len(expr) :
          IF m % 2 = 1 THEN expr[m].k \in {"num", "id", "str"} ELSE expr[m].k = "op"

OperandPositions(expr) == {m \in 1..Len(expr) : m % 2 = 1}

\* The operand is a string literal, a variable of the initial scope that
\* holds a string, or the variable of the provided input, whose text is
\* not a number
IsStringOperand(tok) ==
    \/ tok.k = "str"
    \/ /\ tok.k = "id"
       /\ IF args.providedInput # <<>> /\ tok.x = args.providedInput[1].variable
          THEN args.providedInput[1].value = <<"b", "o", "b">>
          ELSE tok.x \in DOMAIN args.initialScope /\ args.initialScope[tok.x].t = "str"

\* The operand is a numeric literal or a variable of the initial scope
\* that holds a number
IsNumericOperand(tok) ==
    \/ tok.k = "num"
    \/ /\ tok.k = "id"
       /\ ~(args.providedInput # <<>> /\ tok.x = args.providedInput[1].variable)
       /\ tok.x \in DOMAIN args.initialScope
       /\ args.initialScope[tok.x].t = "num"

OperandValue(tok) == IF tok.k = "num" THEN tok.x ELSE args.initialScope[tok.x].v

\* The operand to the right of a division is the number 0
HasZeroDivisor(expr) ==
    \E m \in 1..Len(expr) :
       /\ expr[m] = OpTok("/")
       /\ IsNumericOperand(expr[m + 1])
       /\ OperandValue(expr[m + 1]) = 0

----------------------------------------------------------------------------
(* C14 *)

\* The product of the term whose value so far is acc and whose next
\* operator is at m, left to right, and the position where the term ends
RECURSIVE Term(_, _, _)
Term(expr, m, acc) ==
    IF m > Len(expr) \/ expr[m].x \in {"+", "-"} THEN [v |-> acc, next |-> m]
    ELSE Term(expr, m + 2,
              IF expr[m].x = "*" THEN acc * OperandValue(expr[m + 1])
              ELSE acc \div OperandValue(expr[m + 1]))

\* The sum of the terms, left to right: acc holds the terms before the
\* additive operator at m
RECURSIVE Sum(_, _, _)
Sum(expr, m, acc) ==
    IF m > Len(expr) THEN acc
    ELSE LET term == Term(expr, m + 2, OperandValue(expr[m + 1]))
         IN  Sum(expr, term.next,
                 IF expr[m].x = "+" THEN acc + term.v ELSE acc - term.v)

\* The value by standard precedence and left-to-right associativity
StandardValue(expr) ==
    LET first == Term(expr, 2, OperandValue(expr[1]))
    IN  Sum(expr, first.next, first.v)

NumericChain(expr) ==
    IsChain(expr) /\ \A m \in OperandPositions(expr) : IsNumericOperand(expr[m])

ValueOf(expr, n) == Expression = expr => evaluated = <<Ok(Num(n))>>

\* C14: a chain of numeric literals and numeric variables joined by + - *
\* and /, without a division by zero, evaluates to its value by standard
\* precedence and left-to-right associativity; 3 + 4 * 2 is 11, 10 - 3 - 2
\* is 5 and 8 / 4 / 2 is 1.
ChainsEvaluateStandard ==
    Evaluated =>
       /\ (NumericChain(Expression) /\ ~HasZeroDivisor(Expression))
             => evaluated = <<Ok(Num(StandardValue(Expression)))>>
       /\ ValueOf(<<NumTok(3), OpTok("+"), NumTok(4), OpTok("*"), NumTok(2)>>, 11)
       /\ ValueOf(<<NumTok(10), OpTok("-"), NumTok(3), OpTok("-"), NumTok(2)>>, 5)
       /\ ValueOf(<<NumTok(8), OpTok("/"), NumTok(4), OpTok("/"), NumTok(2)>>, 1)

\* C14 witness: 8 / 4 / 2 has been evaluated to 1
ChainsEvaluateWitness ==
    /\ Evaluated
    /\ Expression = <<NumTok(8), OpTok("/"), NumTok(4), OpTok("/"), NumTok(2)>>
    /\ evaluated = <<Ok(Num(1))>>

----------------------------------------------------------------------------
(* C15 *)

\* Every operand of the chain evaluates: it is a string or a number
OperandsEvaluate(expr) ==
    \A m \in OperandPositions(expr) :
       IsStringOperand(expr[m]) \/ IsNumericOperand(expr[m])

HasStringOperand(expr) ==
    \E m \in OperandPositions(expr) : IsStringOperand(expr[m])

FailsWith(etype) ==
    /\ ~evaluated[1].ok
    /\ evaluated[1].err.etype = etype

\* C15: an operator applied to two operands of which one evaluates to a
\* string fails with a TypeError, also for + and also for a division by 0;
\* so does every chain with a string operand in which no division by the
\* number 0 fails first.
StringOperandFails ==
    (Evaluated /\ IsChain(Expression) /\ Len(Expression) >= 3
        /\ OperandsEvaluate(Expression) /\ HasStringOperand(Expression)) =>
       /\ ~evaluated[1].ok
       /\ (Len(Expression) = 3 \/ ~HasZeroDivisor(Expression)) => FailsWith("TypeError")

\* C15 witness: "a" / 0 and s + 2, s the text bob provided as input, have
\* been evaluated
StringOperandWitness ==
    /\ Evaluated
    /\ FailsWith("TypeError")
    /\ \/ Expression = <<StrTok(<<"a">>), OpTok("/"), NumTok(0)>>
       \/ /\ Expression = <<IdTok("s"), OpTok("+"), NumTok(2)>>
          /\ args.providedInput # <<>>

----------------------------------------------------------------------------
(* C16 *)

\* l / r with r the number 0
IsDivisionByZero(expr) ==
    IsChain(expr) /\ Len(expr) = 3 /\ OperandsEvaluate(expr) /\ HasZeroDivisor(expr)

\* x = 5 / 0: one step, an error step in whose variables x is not bound,
\* and the error returned
FiveByZeroFails ==
    Expression = <<NumTok(5), OpTok("/"), NumTok(0)>> =>
       /\ Len(response.trace) = 1
       /\ response.trace[1].isError
       /\ "x" \notin DOMAIN response.trace[1].variables
       /\ response.error # <<>>
       /\ response.error[1].etype = "ZeroDivisionError"

\* C16 as stated: every division whose right operand is the number 0 fails
\* with a ZeroDivisionError.
DivisionByZeroFails ==
    Evaluated =>
       /\ IsDivisionByZero(Expression) => FailsWith("ZeroDivisionError")
       /\ FiveByZeroFails

\* C16 as amended: a division of a number by the number 0 fails with a
\* ZeroDivisionError, and so does every chain of numbers that holds one.
NumberByZeroFails ==
    Evaluated =>
       /\ (IsDivisionByZero(Expression) /\ IsNumericOperand(Expression[1]))
             => FailsWith("ZeroDivisionError")
       /\ (NumericChain(Expression) /\ HasZeroDivisor(Expression))
             => FailsWith("ZeroDivisionError")
       /\ FiveByZeroFails

\* C16 witness: x = 5 / 0 has been run and has left one error step
NumberByZeroWitness ==
    /\ Evaluated
    /\ Expression = <<NumTok(5), OpTok("/"), NumTok(0)>>
    /\ FailsWith("ZeroDivisionError")
    /\ Len(response.trace) = 1
    /\ response.trace[1].isError

----------------------------------------------------------------------------
(* C17 *)

\* C17: getExecutionTrace is invoked with a provided input only for a
\* step that has requiresInput and is the last step of the accumulated
\* trace, and no step is resumed twice.
ResumesLastStepOnce ==
    /\ \A n \in 1..Len(app.submits) :
          /\ app.submits[n].requiresInput
          /\ app.submits[n].index = app.submits[n].length - 1
    /\ \A n, m \in 1..Len(app.submits) :
          app.submits[n].index = app.submits[m].index => n = m

----------------------------------------------------------------------------
(* C12 *)

\* The steps of the invocations in progress and of the accumulated trace
HeapSteps ==
    {<<0, n>> : n \in 1..Len(mem.held)}
       \cup {<<d, n>> : d \in 1..Len(mem.frames), n \in 1..MaxObjects}

StepAt(at) ==
    IF at[1] = 0 THEN mem.held[at[2]] ELSE mem.frames[at[1]].trace[at[2]]

Exists(at) == at[1] = 0 \/ at[2] <= Len(mem.frames[at[1]].trace)

\* C12: the variables object of a step holds what it held when the step
\* got it, whatever the invocation has done since; no two steps share a
\* variables object and no step's variables object is a live scope.
SnapshotsImmutable ==
    \A at \in {a \in HeapSteps : Exists(a)} :
       /\ mem.heap[StepAt(at).variables] = StepAt(at).taken
       /\ \A other \in {a \in HeapSteps : Exists(a)} :
             StepAt(other).variables = StepAt(at).variables => other = at
       /\ \A d \in 1..Len(mem.frames) :
             mem.frames[d].scope # StepAt(at).variables

\* C12 witness: after a step the scope has been changed, a later step has
\* been appended, and a loop body's steps have been copied into the trace.
SnapshotsWitness ==
    /\ Len(mem.frames) = 1
    /\ Len(Top(mem).trace) >= 3
    /\ mem.heap[Top(mem).scope] # mem.heap[Top(mem).trace[1].variables]
    /\ "i" \in DOMAIN mem.heap[Top(mem).scope]

----------------------------------------------------------------------------
(* C13 *)

\* C13: the initialScope object an invocation was given holds what it held
\* at the call, with or without a provided input; the scope object of the
\* caller of a loop-body invocation holds what it held at the call; an
\* invocation's scope is an object of its own.
CallerScopeUntouched ==
    \A d \in 1..Len(mem.frames) :
       LET frame == mem.frames[d]
       IN  /\ mem.heap[frame.initialScope] = frame.given
           /\ frame.scope # frame.initialScope
           /\ frame.caller # <<>> =>
                 /\ mem.heap[frame.caller[1].scope] = frame.caller[1].contents
                 /\ frame.scope # frame.caller[1].scope
                 /\ frame.initialScope # frame.caller[1].scope
           /\ \A e \in 1..Len(mem.frames) :
                 mem.frames[e].scope = frame.scope => e = d

\* The invocation in progress resumes a paused step of the accumulated
\* trace.
Resuming(frame) ==
    \E n \in 1..Len(mem.held) :
       mem.held[n].requiresInput /\ mem.held[n].variables = frame.initialScope

\* C13 witness: a resuming invocation has called a loop-body invocation,
\* and each of the two has changed its scope.
CallerScopeWitness ==
    /\ Len(mem.frames) = 2
    /\ Resuming(mem.frames[1])
    /\ mem.frames[2].caller[1].contents # mem.frames[1].given
    /\ mem.heap[Top(mem).scope] # Top(mem).given

----------------------------------------------------------------------------
(* C21 *)

\* The variable a step binds, if any
Binds(step) ==
    IF IsKind(step, "assign") \/ IsKind(step, "iteration") THEN {step.description.var}
    ELSE {}

\* Two scopes that differ at most in the variables of a set
SameExcept(before, after, names) ==
    /\ (DOMAIN before) \ names = (DOMAIN after) \ names
    /\ \A n \in (DOMAIN before) \ names : before[n] = after[n]

\* The loop-start step at position p is of a loop whose count is 0
IsZeroCount(trace, p) ==
    /\ trace[p].src > 0
    /\ code[trace[p].src].kind = "for"
    /\ ~IsIteration(trace[p])
    /\ ~trace[p].isError
    /\ LimitOf(trace[p], trace[p].src) = Ok(Num(0))

\* C21: a for-range loop whose count evaluates to 0 leaves one step, its
\* loop-start step: no iteration-start step and no step of a body line
\* follows it, it is no error, the scope is as it was before the loop (the
\* loop variable is neither bound nor changed), and the run goes on at the
\* first statement after the body.
ZeroCountLoopSkipped ==
    \A p \in 1..Len(response.trace) :
       LET trace == response.trace
           H == trace[p].src
       IN  IsZeroCount(trace, p) =>
              /\ IsLoopStart(trace[p])
              /\ trace[p].description.times = 0
              /\ p = Len(trace) => response.error = <<>>
              /\ p < Len(trace) =>
                    /\ ~InLoop(trace[p + 1], code, H)
                    /\ SameExcept(trace[p].variables, trace[p + 1].variables,
                                  Binds(trace[p + 1]))
                    /\ trace[p + 1].src > H =>
                          trace[p + 1].src = FirstExecutable(code, BodyEnd(code, H) - 1)

\* A loop of count 0 with a body statement was passed: the next step is the
\* statement after the body, and the loop variable is not bound there.
ZeroCountLoopWitness ==
    \E p \in 1..(Len(response.trace) - 1) :
       LET H == response.trace[p].src
       IN  /\ IsZeroCount(response.trace, p)
           /\ DirectBody(code, H) # {}
           /\ response.trace[p + 1].src = BodyEnd(code, H)
           /\ code[H].var \notin DOMAIN response.trace[p + 1].variables

----------------------------------------------------------------------------
(* C22 *)

\* The scope the invocation starts from: the initial scope with the
\* provided input, if any, bound to its variable
StartScope ==
    IF args.providedInput = <<>> THEN args.initialScope
    ELSE Bind(args.initialScope, ProvidedVariable, CoerceInput(ProvidedText))

\* The scope after the effect of a step on the scope before it: an
\* assignment binds its variable to the value of its right-hand side, an
\* iteration-start step binds the loop variable to the iteration's index,
\* any other step leaves the scope as it is.
AfterEffect(step, before) ==
    IF IsKind(step, "assign")
    THEN Bind(before, code[step.src].var,
              EvaluateExpression(code[step.src].expr, before).val)
    ELSE IF IsKind(step, "iteration")
    THEN Bind(before, code[step.src].var, Num(step.description.k - 1))
    ELSE before

\* The scope of the invocation at its return
FinalScope == Execute(code, args.initialScope, args.startLine, args.providedInput).scope

\* C22: in every returned trace the variables of each step that is no error
\* step are the scope right after the step's effect, that is the variables
\* of the step before it (the starting scope for the first step) updated by
\* this step's effect, and when the run did not fail the variables of the
\* last step are the scope the invocation ends with.
VariablesFollowEffects ==
    Returned =>
       LET trace == response.trace
       IN  /\ \A p \in 1..Len(trace) :
                ~trace[p].isError =>
                   trace[p].variables =
                      AfterEffect(trace[p], IF p = 1 THEN StartScope
                                            ELSE trace[p - 1].variables)
           /\ (response.error = <<>> /\ trace # <<>>) =>
                 trace[Len(trace)].variables = FinalScope

\* A run ended with a step of a loop body after an assignment in that body
\* changed a variable: the scope folded back from the body is the scope the
\* invocation ends with.
FoldedScopeWitness ==
    /\ Returned
    /\ response.error = <<>>
    /\ \E p \in 2..Len(response.trace) :
          LET trace == response.trace
              last == trace[Len(trace)]
          IN  /\ IsAssignment(trace[p])
              /\ trace[p].variables # trace[p - 1].variables
              /\ \E H \in 1..Len(code) :
                    /\ code[H].kind = "for"
                    /\ H < trace[p].src /\ trace[p].src < BodyEnd(code, H)
                    /\ H < last.src /\ last.src < BodyEnd(code, H)
              /\ last.variables = FinalScope
              /\ last.variables # StartScope

----------------------------------------------------------------------------
(* C23 *)

\* number operator - number
IsSigned(expr) ==
    /\ Len(expr) = 4
    /\ expr[1].k = "num" /\ expr[4].k = "num"
    /\ expr[2].k = "op"
    /\ expr[3] = OpTok("-")

\* The value of a operator (-b), for the operators whose result is a whole
\* number here
SignedValue(expr) ==
    LET a == expr[1].x
        b == expr[4].x
    IN  IF expr[2].x = "*" THEN 0 - a * b
        ELSE IF expr[2].x = "/" THEN 0 - (a \div b)
        ELSE IF expr[2].x = "+" THEN a - b
        ELSE a + b

\* C23: a '-' that directly follows an operator is the sign of the operand
\* after it: 3 * -2 evaluates to -6, 8 / -2 to -4 (and 2 + -4 to -2).
SignAfterOperator ==
    (Evaluated /\ IsSigned(Expression)) =>
        evaluated[1] = Ok(Num(SignedValue(Expression)))

----------------------------------------------------------------------------
(* C24 *)

\* An operator of the expression has no operand on one of its sides
HasEmptyOperand(expr) ==
    \E m \in 1..Len(expr) :
       /\ expr[m].k = "op"
       /\ \/ m = 1
          \/ m = Len(expr)

\* C24: an expression in which a binary operator has an empty operand fails
\* with an error and never evaluates to a value, and the statement x = ...
\* with such an expression does not bind x.
EmptyOperandFails ==
    (Evaluated /\ HasEmptyOperand(Expression)) =>
        /\ ~evaluated[1].ok
        /\ response.error # <<>>
        /\ \A p \in 1..Len(response.trace) :
              "x" \notin DOMAIN response.trace[p].variables

----------------------------------------------------------------------------
(* C25 *)

\* The invocation that returned the response, with its ghost fields
Invocation == Execute(code, args.initialScope, args.startLine, args.providedInput)

\* The loop nesting depth of a source: the largest number of for headers
\* of which each is in the body of the one before it
NestingDepth(lines) ==
    LET fors == {H \in 1..Len(lines) : lines[H].kind = "for"}
        level(H) == 1 + Cardinality({G \in fors : G < H /\ H < BodyEnd(lines, G)})
    IN  IF fors = {} THEN 0
        ELSE CHOOSE d \in 1..Len(lines) :
                /\ \E H \in fors : level(H) = d
                /\ \A H \in fors : level(H) <= d

\* The scan went through all the lines: it stopped behind the last line or
\* behind a loop whose body reaches the end of the source
Exhausted(lines, start, cursor) ==
    IF cursor = <<>> THEN start >= Len(lines)
    ELSE LET last == cursor[Len(cursor)] + 1
         IN  IF lines[last].kind = "for" /\ last < Len(lines)
             THEN BodyEnd(lines, last) > Len(lines)
             ELSE last = Len(lines)

\* C25: every invocation returns with one of the outcomes completed (all
\* lines exhausted, no error), paused for input (at an input() line, no
\* error) or failed (the error is returned); the cursor over the top-level
\* lines starts at the start line and strictly increases, by one except
\* behind a loop header, so that every line index is dispatched at most
\* once and at most as many lines are dispatched as the source has from the
\* start line on; and the sub-invocations are nested no deeper than the
\* loops of the source.
ScanTerminates ==
    Returned =>
       LET run == Invocation
           cursor == run.cursor
       IN  /\ run.outcome \in {"completed", "paused", "failed"}
           /\ run.outcome = "failed" <=> response.error # <<>>
           /\ run.outcome = "paused" =>
                 /\ response.trace # <<>>
                 /\ LastStep(response.trace).requiresInput
                 /\ LastStep(response.trace).lineNumber = cursor[Len(cursor)] + 1
           /\ run.outcome = "completed" => Exhausted(code, args.startLine, cursor)
           /\ \A n \in 1..Len(cursor) :
                 args.startLine <= cursor[n] /\ cursor[n] < Len(code)
           /\ cursor # <<>> => cursor[1] = args.startLine
           /\ \A n \in 1..(Len(cursor) - 1) :
                 /\ cursor[n] < cursor[n + 1]
                 /\ code[cursor[n] + 1].kind # "for" => cursor[n + 1] = cursor[n] + 1
           /\ Len(cursor) <= Max(Len(code) - args.startLine, 0)
           /\ run.depth <= NestingDepth(code)

\* A run of two nested loops was completed: the sub-invocations went as
\* deep as the loops are nested, and the cursor moved from the outer header
\* to the line behind its body.
ScanTerminatesWitness ==
    /\ Returned
    /\ Invocation.outcome = "completed"
    /\ NestingDepth(code) = 2
    /\ Invocation.depth = 2
    /\ \E n \in 1..(Len(Invocation.cursor) - 1) :
          /\ code[Invocation.cursor[n] + 1].kind = "for"
          /\ Invocation.cursor[n + 1] > Invocation.cursor[n] + 1

----------------------------------------------------------------------------
(* C26 *)

SameArguments(first, second) ==
    first.code = second.code /\ first.args = second.args

====
